---- MODULE Spec2Model ----
(***************************************************************************)
(* State-machine model of the feeflash bootloader client:                  *)
(*   src/src/crc.rs        crc16_ccitt                                     *)
(*   src/src/frame.rs      BootloaderFrame::to_bytes                       *)
(*   src/src/bootloader.rs wait_for_bootloader_magic_ack,                  *)
(*                         send_frame_with_retry, send_firmware_file       *)
(* The serial port is the environment: every write_all, flush, read and    *)
(* set_timeout is one step whose outcome the stream chooses.  Every call   *)
(* on the stream is recorded in the history variable io.                   *)
(* Durations are in milliseconds, bytes are 0..255, u8 arithmetic is       *)
(* taken modulo 256.                                                       *)
(***************************************************************************)
EXTENDS Integers, Sequences, FiniteSets, TLC

VARIABLES
    op,            \* the entry point under execution: "frame" | "firmware" | "magic"
    pc,            \* position in the code
    io,            \* history of the calls made on the port, in program order
    ret,           \* io::Result of the entry point once pc = "done"
    frame_bytes,   \* send_frame_with_retry: frame_bytes
    max_retries,   \* send_frame_with_retry: max_retries
    attempt,       \* send_frame_with_retry: attempt (u8)
    sfr_ret,       \* io::Result returned by the last send_frame_with_retry
    data,          \* send_firmware_file: contents of the firmware file, held as
                   \* [len, seed]: the image of that length made from that seed
    total_chunks,  \* send_firmware_file: total_chunks
    index,         \* send_firmware_file: index (u8)
    chunk_idx,     \* send_firmware_file: chunk_idx of the enumerate()
    interval,      \* wait_for_bootloader_magic_ack: interval
    max_wait,      \* wait_for_bootloader_magic_ack: max_wait, {} for None, {d} for Some(d)
    elapsed,       \* wait_for_bootloader_magic_ack: start.elapsed()
    timeout,       \* the port's configured read timeout
    nak_budget,    \* responder: how many more NAK bytes it may still answer
    found,         \* scan_ids: found
    scan_id,       \* scan_ids: id of the loop over start_id..=end_id
    arg,           \* arguments of the codec function applied (crc, frame, packet)
    out            \* its result

vars == <<op, pc, io, ret, frame_bytes, max_retries, attempt, sfr_ret, data,
          total_chunks, index, chunk_idx, interval, max_wait, elapsed, timeout,
          nak_budget, found, scan_id, arg, out>>

scanVars == <<found, scan_id>>
codecVars == <<arg, out>>
sfrVars == <<frame_bytes, max_retries, attempt, sfr_ret>>
fwVars == <<data, total_chunks, index, chunk_idx>>
magicVars == <<interval, max_wait, elapsed>>

-----------------------------------------------------------------------------
(* Bounds of the model *)

\* NAK answers the responder may give to a direct send_frame_with_retry call
MaxNaksFrame == 257
\* NAK answers the responder may give during the transfer of a short image
MaxNaksFw == 7
\* images up to this length are transferred against a NAK-ing responder
ShortLen == 130
\* length of the long image (257 chunks: the u8 index wraps)
LongLen == 16385
\* reads the handshake responder may leave without ACK or hard error
MaxMagicReads == 3

-----------------------------------------------------------------------------
(* Program constants *)

ACK == 6
NAK == 21
ChunkSize == 64
FrameLen == 70
FwRetries == 5
NormalTimeout == 10000
BOOTLOADER_MAGIC == <<49, 102, 66, 86, 65>>

-----------------------------------------------------------------------------
(* Byte arithmetic *)

MinMut(a, b) == a
Min(a, b) == IF a <= b THEN a ELSE b

RECURSIVE Xor(_, _)
Xor(a, b) ==
    IF a = 0 THEN b
    ELSE IF b = 0 THEN a
    ELSE (((a % 2) + (b % 2)) % 2) + 2 * Xor(a \div 2, b \div 2)

\* !x on a u8
Not8(x) == 255 - x

-----------------------------------------------------------------------------
(* crc.rs *)

\* crc.rs:10-16, n rounds of the inner loop
RECURSIVE CrcBits(_, _)
CrcBits(crc, n) ==
    IF n = 0 THEN crc
    ELSE LET msb_set == crc >= 32768
             shifted == (crc % 32768) * 2
             next == IF msb_set THEN Xor(shifted, 4129) ELSE shifted
         IN IF next >= 0 THEN CrcBits(next, n - 1) ELSE 0

\* crc.rs:8-17, the outer loop from the i-th byte on; take(64) stops it
RECURSIVE CrcFrom(_, _, _)
CrcFrom(crc, bytes, i) ==
    IF i > Min(Len(bytes), 64) THEN crc
    ELSE LET next == CrcBits(Xor(crc, bytes[i] * 256), 8)
         IN IF next >= 0 THEN CrcFrom(next, bytes, i + 1) ELSE 0

crc16_ccitt(bytes) == CrcFrom(0, bytes, 1)

-----------------------------------------------------------------------------
(* frame.rs *)

StopMarkerMut(is_last) == 6
StopMarker(is_last) == IF is_last THEN 4 ELSE 6

to_bytes(f) ==
    LET frame0 == <<f.index, Not8(f.index), f.unknown_byte>> \o f.data \o <<0, 0, 0>>
        crc == crc16_ccitt(SubSeq(frame0, 1, 64))
        crc_high == crc \div 256
        crc_low == crc % 256
    IN [i \in 1..FrameLen |->
          IF i = 68 THEN crc_high
          ELSE IF i = 69 THEN crc_low
          ELSE IF i = 70 THEN StopMarker(f.is_last)
          ELSE frame0[i]]

-----------------------------------------------------------------------------
(* io::Result values *)

Ok == [ok |-> TRUE, kind |-> "Ok", what |-> "", n |-> 0]
Err(kind, what, n) == [ok |-> FALSE, kind |-> kind, what |-> what, n |-> n]
Pending == [ok |-> FALSE, kind |-> "Pending", what |-> "", n |-> 0]

-----------------------------------------------------------------------------
(* The stream: what a call on the port can do *)

\* io::ErrorKind of an error raised by the port itself
StreamErrKinds == {"TimedOut", "BrokenPipe"}
CallResults == {"ok"} \cup StreamErrKinds

\* bytes a responder answers: ACK, NAK and some others
RespBytes == {ACK, NAK, 0, 4, 255}

\* bytes the handshake reads: ACK and another one
MagicBytes == {ACK, NAK}

\* outcome of port.read into a 1-byte buffer: Ok(0), Ok(1) or Err
ReadOutcomes(bytes) ==
    {[res |-> "ok", data |-> <<b>>] : b \in bytes}
      \cup {[res |-> "ok", data |-> <<>>]}
      \cup {[res |-> k, data |-> <<>>] : k \in StreamErrKinds}

Ev(ev, bytes, res) == [ev |-> ev, data |-> bytes, res |-> res]

\* reading the history
IsWrite(e) == e.ev = "write"
IsRead(e) == e.ev = "read"
IsByteRead(e, b) == e.ev = "read" /\ e.res = "ok" /\ e.data = <<b>>
WriteCalls(h) == {i \in 1..Len(h) : IsWrite(h[i])}
ReadCalls(h) == {i \in 1..Len(h) : IsRead(h[i])}
NakReads(h) == {i \in 1..Len(h) : IsByteRead(h[i], NAK)}
AckReads(h) == {i \in 1..Len(h) : IsByteRead(h[i], ACK)}
\* no call on the port has raised an error
AllCallsOk(h) == \A i \in 1..Len(h) : h[i].res = "ok"

-----------------------------------------------------------------------------
(* Inputs *)

\* a firmware image of the given length: its i-th byte (1-based), its length,
\* and the image as a sequence of bytes
Image(len, seed) == [len |-> len, seed |-> seed]
Byte(d, i) == (d.seed + 7 * i + (i \div 64)) % 256
DataLen(d) == d.len
Bytes(d) == [i \in 1..DataLen(d) |-> Byte(d, i)]

NoImage == Image(0, 0)

Images ==
    {Image(l, s) : l \in {0, 1, 63, 64, 65, 128, ShortLen}, s \in {3, 250}}
      \cup {Image(LongLen, 3)}

\* frames handed to send_frame_with_retry when it is called directly
SampleFrame1 ==
    to_bytes([index |-> 1, unknown_byte |-> 0, data |-> Bytes(Image(64, 3)), is_last |-> FALSE])
SampleFrame2 ==
    to_bytes([index |-> 90, unknown_byte |-> 0, data |-> Bytes(Image(64, 250)), is_last |-> TRUE])

\* the direct calls send_frame_with_retry(port, frame, retries): both frames
\* with few retries, one frame with the two largest u8 values
FrameCalls ==
    ({SampleFrame1, SampleFrame2} \X {0, 1, 2, 5}) \cup ({SampleFrame1} \X {254, 255})
Intervals == {50, 100}
MaxWaits == {{}, {0}, {100}, {250}}

-----------------------------------------------------------------------------
(* Initial states: one entry point is called on a freshly opened port *)

InitCommon ==
    /\ io = <<>>
    /\ ret = Pending
    /\ sfr_ret = Pending
    /\ timeout = NormalTimeout
    /\ found = <<>>
    /\ scan_id = 0
    /\ arg = <<>>
    /\ out = <<>>

InitFrame ==
    /\ op = "frame"
    /\ pc = "sfr_write"
    /\ \E c \in FrameCalls : frame_bytes = c[1] /\ max_retries = c[2]
    /\ attempt = 0
    /\ data = NoImage /\ total_chunks = 0 /\ index = 0 /\ chunk_idx = 0
    /\ interval = 0 /\ max_wait = {} /\ elapsed = 0
    /\ nak_budget = MaxNaksFrame

InitFirmware ==
    /\ op = "firmware"
    /\ pc = "fw_start"
    /\ data \in Images
    /\ frame_bytes = <<>> /\ max_retries = 0 /\ attempt = 0
    /\ total_chunks = 0 /\ index = 0 /\ chunk_idx = 0
    /\ interval = 0 /\ max_wait = {} /\ elapsed = 0
    /\ nak_budget = IF DataLen(data) <= ShortLen THEN MaxNaksFw ELSE 0

InitMagic ==
    /\ op = "magic"
    /\ pc = "m_start"
    /\ interval \in Intervals
    /\ max_wait \in MaxWaits
    /\ elapsed = 0
    /\ frame_bytes = <<>> /\ max_retries = 0 /\ attempt = 0
    /\ data = NoImage /\ total_chunks = 0 /\ index = 0 /\ chunk_idx = 0
    /\ nak_budget = 0

Init == InitCommon /\ (InitFrame \/ InitFirmware \/ InitMagic)

\* main.rs:55-72: the recovery flow starts on the port opened with the normal
\* timeout; interval = 100 ms and max_wait = None (main.rs:70-71)
RecoveryInterval == 100
RecoveryImages == {Image(0, 0), Image(ChunkSize + 1, 3)}

InitRecovery ==
    /\ op = "recovery"
    /\ pc = "r_start"
    /\ interval = RecoveryInterval
    /\ max_wait = {}
    /\ elapsed = 0
    /\ data \in RecoveryImages
    /\ frame_bytes = <<>> /\ max_retries = 0 /\ attempt = 0
    /\ total_chunks = 0 /\ index = 0 /\ chunk_idx = 0
    /\ nak_budget = 1

\* dynamixel.rs:55: scan_ids is called on the port opened with the normal
\* timeout (main.rs:57-60, 88)
InitScan ==
    /\ op = "scan"
    /\ pc = "sc_start"
    /\ frame_bytes = <<>> /\ max_retries = 0 /\ attempt = 0
    /\ data = NoImage /\ total_chunks = 0 /\ index = 0 /\ chunk_idx = 0
    /\ interval = 0 /\ max_wait = {} /\ elapsed = 0
    /\ nak_budget = 0

-----------------------------------------------------------------------------
(* bootloader.rs: send_frame_with_retry *)

\* bootloader.rs:85, the response that is retried
IsNakMut(b) == b # ACK
IsNak(b) == b = NAK

\* bootloader.rs:87, the test that ends the retries
NakExhausted(a, m) == a > m

\* bootloader.rs:90, the count the retry-exhausted error reports
NakReported(a) == a - 1

\* the function returns r: to the caller of the entry point, or into the
\* transfer loop of send_firmware_file (the ? of bootloader.rs:154)
SfrReturn(r) ==
    /\ sfr_ret' = r
    /\ IF op = "frame"
       THEN pc' = "done" /\ ret' = r
       ELSE pc' = "fw_after_send" /\ ret' = ret

\* bootloader.rs:62-64: attempt += 1; port.write_all(frame_bytes)?
SFR_Write ==
    /\ pc = "sfr_write"
    /\ attempt' = (attempt + 1) % 256
    /\ \E res \in CallResults :
         /\ io' = Append(io, Ev("write", frame_bytes, res))
         /\ IF res = "ok"
            THEN pc' = "sfr_flush" /\ UNCHANGED <<ret, sfr_ret>>
            ELSE SfrReturn(Err(res, "stream", 0))
    /\ UNCHANGED <<op, scanVars, codecVars, frame_bytes, max_retries, fwVars, magicVars, timeout, nak_budget>>

\* bootloader.rs:65: port.flush()?
SFR_Flush ==
    /\ pc = "sfr_flush"
    /\ \E res \in CallResults :
         /\ io' = Append(io, Ev("flush", <<>>, res))
         /\ IF res = "ok"
            THEN pc' = "sfr_read" /\ UNCHANGED <<ret, sfr_ret>>
            ELSE SfrReturn(Err(res, "stream", 0))
    /\ UNCHANGED <<op, scanVars, codecVars, frame_bytes, max_retries, attempt, fwVars, magicVars, timeout,
                   nak_budget>>

\* bootloader.rs:67-105: port.read(&mut resp)? and the match on the response
SFR_Read ==
    /\ pc = "sfr_read"
    /\ \E r \in ReadOutcomes(RespBytes) :
         /\ r.data = <<NAK>> => nak_budget > 0
         /\ nak_budget' = IF r.data = <<NAK>> THEN nak_budget - 1 ELSE nak_budget
         /\ io' = Append(io, Ev("read", r.data, r.res))
         /\ IF r.res # "ok"
            THEN SfrReturn(Err(r.res, "stream", 0))
            ELSE IF Len(r.data) # 1
            THEN SfrReturn(Err("UnexpectedEof", "read_bytes", Len(r.data)))
            ELSE IF r.data[1] = ACK
            THEN SfrReturn(Ok)
            ELSE IF IsNak(r.data[1])
            THEN IF NakExhausted(attempt, max_retries)
                 THEN SfrReturn(Err("Other", "nak", NakReported(attempt)))
                 ELSE pc' = "sfr_write" /\ UNCHANGED <<ret, sfr_ret>>
            ELSE SfrReturn(Err("InvalidData", "response", r.data[1]))
    /\ UNCHANGED <<op, scanVars, codecVars, frame_bytes, max_retries, attempt, fwVars, magicVars, timeout>>

-----------------------------------------------------------------------------
(* bootloader.rs: send_firmware_file *)

\* bootloader.rs:115
IsEmptyMut(d) == FALSE
IsEmpty(d) == DataLen(d) = 0

\* bootloader.rs:154, the ? lets the loop go on only after Ok
SendOkMut(r) == r.ok \/ r.what = "nak"
SendOkAny(r) == TRUE
SendOk(r) == r.ok

\* bootloader.rs:122
TotalChunks(len) == (len + 63) \div ChunkSize

\* bootloader.rs:131, the chunk_idx-th item (0-based) of data.chunks(64)
Chunk(d, i) ==
    [k \in 1..(Min(ChunkSize * (i + 1), DataLen(d)) - ChunkSize * i) |->
       Byte(d, ChunkSize * i + k)]

\* bootloader.rs:134-135, the chunk copied over a buffer of 0xFF
FrameDataMut(chunk) == [i \in 1..ChunkSize |-> IF i <= Len(chunk) THEN chunk[i] ELSE 0]
FrameData(chunk) == [i \in 1..ChunkSize |-> IF i <= Len(chunk) THEN chunk[i] ELSE 255]

\* bootloader.rs:132
IsLast(i, total) == (i + 1) = total

\* bootloader.rs:129, the index of the first frame
FirstIndexMut == 1 - 1
FirstIndex == 1

\* bootloader.rs:156, index.wrapping_add(1)
NextIndex(i) == (i + 1) % 256

\* bootloader.rs:137-142
MakeFrame(idx, chunk, is_last) ==
    [index |-> idx, unknown_byte |-> 0, data |-> FrameData(chunk), is_last |-> is_last]

\* bootloader.rs:131-154: the next item of data.chunks(64).enumerate(), its
\* frame, and the call send_frame_with_retry(port, &raw, 5), which begins
\* with attempt = 0; Ok(()) once the chunks are exhausted (bootloader.rs:160)
NextChunk(idx, cidx, total) ==
    IF ChunkSize * cidx >= DataLen(data)
    THEN /\ pc' = "done" /\ ret' = Ok
         /\ UNCHANGED <<frame_bytes, max_retries, attempt>>
    ELSE /\ frame_bytes' = to_bytes(MakeFrame(idx, Chunk(data, cidx),
                                              IsLast(cidx, total)))
         /\ max_retries' = FwRetries
         /\ attempt' = 0
         /\ pc' = "sfr_write"
         /\ ret' = ret

\* bootloader.rs:113-154: fs::read, the empty check, total_chunks, index = 1,
\* and the first iteration of the loop up to its call of send_frame_with_retry
FW_Start ==
    /\ pc = "fw_start"
    /\ \E res \in {"ok", "NotFound"} :
         IF res # "ok"
         THEN /\ pc' = "done" /\ ret' = Err(res, "fs", 0)
              /\ UNCHANGED <<total_chunks, index, chunk_idx, frame_bytes, max_retries,
                             attempt>>
         ELSE IF IsEmpty(data)
         THEN /\ pc' = "done" /\ ret' = Err("InvalidInput", "empty", 0)
              /\ UNCHANGED <<total_chunks, index, chunk_idx, frame_bytes, max_retries,
                             attempt>>
         ELSE /\ total_chunks' = TotalChunks(DataLen(data))
              /\ index' = FirstIndex
              /\ chunk_idx' = 0
              /\ NextChunk(index', chunk_idx', total_chunks')
    /\ UNCHANGED <<op, scanVars, codecVars, io, sfr_ret, data, magicVars, timeout, nak_budget>>

\* bootloader.rs:154-156 and 131-154: the ? on the result of the send, then
\* index = index.wrapping_add(1) and the next iteration of the loop
FW_AfterSend ==
    /\ pc = "fw_after_send"
    /\ IF SendOk(sfr_ret)
       THEN /\ index' = NextIndex(index)
            /\ chunk_idx' = chunk_idx + 1
            /\ NextChunk(index', chunk_idx', total_chunks)
       ELSE /\ pc' = "done" /\ ret' = sfr_ret
            /\ UNCHANGED <<index, chunk_idx, frame_bytes, max_retries, attempt>>
    /\ UNCHANGED <<op, scanVars, codecVars, io, sfr_ret, data, total_chunks, magicVars, timeout, nak_budget>>

-----------------------------------------------------------------------------
(* bootloader.rs: wait_for_bootloader_magic_ack *)

\* bootloader.rs:43-44
DeadlineReachedMut(mw, e) == \E limit \in mw : 2 * e >= limit
DeadlineAlwaysMut(mw, e) == mw # {}
DeadlineReached(mw, e) == \E limit \in mw : e >= limit

\* bootloader.rs:28-29, the read that ends the handshake
GotAckMut(r) == r.res = "ok" /\ Len(r.data) = 1
GotAck(r) == r.res = "ok" /\ Len(r.data) = 1 /\ r.data[1] = ACK

\* bootloader.rs:34-39, the read error that is returned rather than retried
IsFatalReadMut(res) == FALSE
IsFatalRead(res) == res \notin {"ok", "TimedOut"}

\* bootloader.rs:17, the read timeout of the port after set_timeout(interval)
TimeoutAfterSetMut(old, iv) == old
TimeoutAfterSet(old, iv) == iv

\* the function returns r: to the caller of the entry point, or to main's
\* recovery flow, whose expect (main.rs:71-72) goes on only after Ok
MagicReturn(r) ==
    IF op = "recovery" /\ r.ok
    THEN pc' = "init_write" /\ ret' = ret
    ELSE pc' = "done" /\ ret' = r

\* bootloader.rs:17-21: port.set_timeout(interval)?; start = Instant::now()
M_StartStep(res) ==
    /\ pc = "m_start"
    /\ io' = Append(io, Ev("set_timeout", <<interval>>, res))
    /\ IF res = "ok"
       THEN timeout' = TimeoutAfterSet(timeout, interval) /\ pc' = "m_write" /\ ret' = ret
       ELSE timeout' = timeout /\ pc' = "done" /\ ret' = Err(res, "stream", 0)
    /\ elapsed' = 0
    /\ UNCHANGED <<op, scanVars, codecVars, sfrVars, fwVars, interval, max_wait, nak_budget>>

M_Start == \E res \in {"ok", "BrokenPipe"} : M_StartStep(res)

\* bootloader.rs:24: port.write_all(magic)?
M_WriteStep(res) ==
    /\ pc = "m_write"
    /\ io' = Append(io, Ev("write", BOOTLOADER_MAGIC, res))
    /\ IF res = "ok"
       THEN pc' = "m_flush" /\ ret' = ret
       ELSE pc' = "done" /\ ret' = Err(res, "stream", 0)
    /\ UNCHANGED <<op, scanVars, codecVars, sfrVars, fwVars, magicVars, timeout, nak_budget>>

M_Write == \E res \in CallResults : M_WriteStep(res)

\* bootloader.rs:25: port.flush()?
M_FlushStep(res) ==
    /\ pc = "m_flush"
    /\ io' = Append(io, Ev("flush", <<>>, res))
    /\ IF res = "ok"
       THEN pc' = "m_read" /\ ret' = ret
       ELSE pc' = "done" /\ ret' = Err(res, "stream", 0)
    /\ UNCHANGED <<op, scanVars, codecVars, sfrVars, fwVars, magicVars, timeout, nak_budget>>

M_Flush == \E res \in CallResults : M_FlushStep(res)

\* bootloader.rs:27-50: the read with outcome r that lasted d, the match on
\* it and the deadline check
M_ReadStep(r, d) ==
    /\ pc = "m_read"
    /\ io' = Append(io, Ev("read", r.data, r.res))
    /\ elapsed' = elapsed + d
    /\ IF GotAck(r)
       THEN MagicReturn(Ok)
       ELSE IF IsFatalRead(r.res)
       THEN pc' = "done" /\ ret' = Err(r.res, "stream", 0)
       ELSE IF DeadlineReached(max_wait, elapsed')
       THEN pc' = "done" /\ ret' = Err("TimedOut", "magic", 0)
       ELSE pc' = "m_write" /\ ret' = ret
    /\ UNCHANGED <<op, scanVars, codecVars, sfrVars, fwVars, interval, max_wait, timeout,
                   nak_budget>>

\* A read that times out lasts the configured timeout; any other lasts d.
M_Read ==
    \E r \in ReadOutcomes(MagicBytes), d \in {0, timeout} :
       /\ r.res = "TimedOut" => d = timeout
       /\ (r.res = "TimedOut" \/ (r.res = "ok" /\ r.data # <<ACK>>))
             => Cardinality(ReadCalls(io)) < MaxMagicReads
       /\ M_ReadStep(r, d)

-----------------------------------------------------------------------------
(* main.rs: the recovery flow around the handshake *)

\* the write of main.rs:158
InitByte == <<1>>

\* what the read of main.rs:160-162 into the 1024-byte buffer returns
InitReadOutcomes == ReadOutcomes(MagicBytes) \cup {[res |-> "ok", data |-> <<ACK, ACK>>]}

\* main.rs:66-67: port.set_baud_rate(500_000).expect(..), then the call of
\* wait_for_bootloader_magic_ack
R_Start ==
    /\ pc = "r_start"
    /\ \E res \in {"ok", "BrokenPipe"} :
         /\ io' = Append(io, Ev("set_baud_rate", <<>>, res))
         /\ IF res = "ok"
            THEN pc' = "m_start" /\ ret' = ret
            ELSE pc' = "done" /\ ret' = Err(res, "stream", 0)
    /\ UNCHANGED <<op, scanVars, codecVars, sfrVars, fwVars, magicVars, timeout, nak_budget>>

\* main.rs:158: port.write(&[0x01]).expect(..)
R_InitWrite ==
    /\ pc = "init_write"
    /\ \E res \in CallResults :
         /\ io' = Append(io, Ev("write", InitByte, res))
         /\ IF res = "ok"
            THEN pc' = "init_read" /\ ret' = ret
            ELSE pc' = "done" /\ ret' = Err(res, "stream", 0)
    /\ UNCHANGED <<op, scanVars, codecVars, sfrVars, fwVars, magicVars, timeout, nak_budget>>

\* main.rs:160-181: the read of the init ACK, the two panics, and the call of
\* send_firmware_file
R_InitRead ==
    /\ pc = "init_read"
    /\ \E r \in InitReadOutcomes :
         /\ io' = Append(io, Ev("read", r.data, r.res))
         /\ IF r.res # "ok"
            THEN pc' = "done" /\ ret' = Err(r.res, "stream", 0)
            ELSE IF Len(r.data) # 1
            THEN pc' = "done" /\ ret' = Err("Panic", "read_bytes", Len(r.data))
            ELSE IF r.data[1] # ACK
            THEN pc' = "done" /\ ret' = Err("Panic", "response", r.data[1])
            ELSE pc' = "fw_start" /\ ret' = ret
    /\ UNCHANGED <<op, scanVars, codecVars, sfrVars, fwVars, magicVars, timeout, nak_budget>>

-----------------------------------------------------------------------------
(* dynamixel.rs: build_dyn_packet, send_ping, scan_ids *)

SCAN_TIMEOUT_MS == 30
ScanRestoreTimeout == 10000
StartId == 0
EndId == 253
PingInstruction == 1
RebootInstruction == 8

\* dynamixel.rs:9, u8::saturating_add
SaturatingAdd8(a, b) == Min(a + b, 255)

\* dynamixel.rs:9, params.len() as u8
LenAsU8(n) == n % 256

\* the sum of s[lo..hi] in the integers, by halves
RECURSIVE SumRange(_, _, _)
SumRange(s, lo, hi) ==
    IF lo > hi THEN 0
    ELSE IF lo = hi THEN s[lo]
    ELSE LET mid == (lo + hi) \div 2
             left == SumRange(s, lo, mid)
         IN IF left >= 0 THEN left + SumRange(s, mid + 1, hi) ELSE 0

\* dynamixel.rs:18, packet.iter().skip(2).map(|&b| b as u16).sum(): the u16
\* addition overflows when the sum exceeds 65535, and then wraps
WideSum(packet) == SumRange(packet, 3, Len(packet))
SumOverflows(packet) == WideSum(packet) > 65535
SumU16(packet) == WideSum(packet) % 65536

\* dynamixel.rs:19, (!sum & 0xFF) as u8
ChecksumOfMut(sum) == sum % 256
ChecksumOf(sum) == (65535 - sum) % 256

\* dynamixel.rs:9-16, the packet before its checksum
PacketHead(id, instruction, params) ==
    <<255, 255, id, SaturatingAdd8(LenAsU8(Len(params)), 2), instruction>> \o params

\* dynamixel.rs:8-22
build_dyn_packet(id, instruction, params) ==
    LET packet == PacketHead(id, instruction, params)
    IN Append(packet, ChecksumOf(SumU16(packet)))

\* the addresses whose ping may do anything else than time out
ProbeIds == {0, 1, 253}

\* what the read of dynamixel.rs:30 returns: a byte, nothing, or an error
PingReads == ReadOutcomes({0})

\* dynamixel.rs:25-30, the calls send_ping(port, id) makes on the port when
\* write_all, flush and read end as w, f and r
PingCalls(id, w, f, r) ==
    LET packet == build_dyn_packet(id, PingInstruction, <<>>)
    IN IF w # "ok" THEN <<Ev("write", packet, w)>>
       ELSE IF f # "ok" THEN <<Ev("write", packet, w), Ev("flush", <<>>, f)>>
       ELSE <<Ev("write", packet, w), Ev("flush", <<>>, f), Ev("read", r.data, r.res)>>

\* dynamixel.rs:26-45, the result of send_ping
PingResult(w, f, r) ==
    IF w # "ok" THEN Err(w, "stream", 0)
    ELSE IF f # "ok" THEN Err(f, "stream", 0)
    ELSE IF r.res = "TimedOut" THEN Err("TimedOut", "ping", 0)
    ELSE IF r.res # "ok" THEN Err(r.res, "stream", 0)
    ELSE IF Len(r.data) = 0 THEN Err("UnexpectedEof", "ping", 0)
    ELSE Ok

\* dynamixel.rs:71, send_ping(port, id).is_ok()
Responding(r) == r.ok

\* dynamixel.rs:93, the read timeout of the port after the restoring
\* set_timeout
TimeoutRestored(old) == ScanRestoreTimeout

\* dynamixel.rs:70, the id after id in start_id..=end_id
NextIdMut(id) == id + 2
NextId(id) == id + 1

\* dynamixel.rs:57-66: port.set_timeout(30 ms)?, found = Vec::new(), the
\* range start_id..=end_id
SC_Start ==
    /\ pc = "sc_start"
    /\ \E res \in {"ok", "BrokenPipe"} :
         /\ io' = Append(io, Ev("set_timeout", <<SCAN_TIMEOUT_MS>>, res))
         /\ IF res = "ok"
            THEN timeout' = SCAN_TIMEOUT_MS /\ pc' = "sc_ping" /\ ret' = ret
            ELSE timeout' = timeout /\ pc' = "done" /\ ret' = Err(res, "stream", 0)
    /\ found' = <<>>
    /\ scan_id' = StartId
    /\ UNCHANGED <<op, codecVars, sfrVars, fwVars, magicVars, nak_budget>>

\* dynamixel.rs:71-73: if send_ping(port, id).is_ok() { found.push(id) }
SC_Ping ==
    /\ pc = "sc_ping"
    /\ \E w \in CallResults, f \in CallResults, r \in PingReads :
         /\ scan_id \notin ProbeIds => (w = "ok" /\ f = "ok" /\ r.res = "TimedOut")
         /\ io' = io \o PingCalls(scan_id, w, f, r)
         /\ found' = IF Responding(PingResult(w, f, r)) THEN Append(found, scan_id) ELSE found
    /\ pc' = "sc_progress"
    /\ UNCHANGED <<op, codecVars, ret, scan_id, sfrVars, fwVars, magicVars, timeout, nak_budget>>

\* dynamixel.rs:75-84: write!(handle, ..)?; handle.flush()?; and the step of
\* the loop to the next id
SC_Progress ==
    /\ pc = "sc_progress"
    /\ \E res \in {"ok", "BrokenPipe"} :
         IF res # "ok"
         THEN pc' = "done" /\ ret' = Err(res, "stdout", 0) /\ scan_id' = scan_id
         ELSE IF scan_id = EndId
         THEN pc' = "sc_finish" /\ ret' = ret /\ scan_id' = scan_id
         ELSE pc' = "sc_ping" /\ ret' = ret /\ scan_id' = NextId(scan_id)
    /\ UNCHANGED <<op, codecVars, io, found, sfrVars, fwVars, magicVars, timeout, nak_budget>>

\* dynamixel.rs:86-95: writeln!(handle)?; port.set_timeout(10 s)?; Ok(found)
SC_Finish ==
    /\ pc = "sc_finish"
    /\ \E out_res \in {"ok", "BrokenPipe"}, res \in {"ok", "BrokenPipe"} :
         IF out_res # "ok"
         THEN /\ pc' = "done" /\ ret' = Err(out_res, "stdout", 0)
              /\ UNCHANGED <<io, timeout>>
         ELSE /\ io' = Append(io, Ev("set_timeout", <<ScanRestoreTimeout>>, res))
              /\ pc' = "done"
              /\ IF res = "ok"
                 THEN timeout' = TimeoutRestored(timeout) /\ ret' = Ok
                 ELSE timeout' = timeout /\ ret' = Err(res, "stream", 0)
    /\ UNCHANGED <<op, codecVars, scanVars, sfrVars, fwVars, magicVars, nak_budget>>

-----------------------------------------------------------------------------
(* The codec functions called on their own: crc16_ccitt, to_bytes,
   build_dyn_packet *)

\* inputs of crc16_ccitt: shorter than, as long as and longer than 64 bytes
CrcLens == {0, 1, 63, 64, 65, 70, 100}
CrcInputs == {Bytes(Image(l, s)) : l \in CrcLens, s \in {3, 250}}

\* inputs of to_bytes: every index
CodecPayloads == {Bytes(Image(ChunkSize, 3)), [i \in 1..ChunkSize |-> 255]}
FrameInputs ==
    [index : {0, 1, 255}, unknown_byte : {0, 255}, data : CodecPayloads, is_last : BOOLEAN]
      \cup {[index |-> i, unknown_byte |-> 0, data |-> Bytes(Image(ChunkSize, 3)),
              is_last |-> (i % 2 = 1)] : i \in 0..255}

\* inputs of build_dyn_packet: parameter sequences around the largest
\* lengths a u8 holds
ParamLens == {0, 1, 2, 253, 254, 255, 256}
PacketInputs ==
    [id : {1, 253, 255},
     instruction : {PingInstruction, RebootInstruction},
     params : {[i \in 1..n |-> f] : n \in ParamLens, f \in {7, 255}}]

InitCodec ==
    /\ \/ op = "crc" /\ arg \in CrcInputs
       \/ op = "to_bytes" /\ arg \in FrameInputs
       \/ op = "packet" /\ arg \in PacketInputs
    /\ pc = "call"
    /\ out = <<>>
    /\ io = <<>> /\ ret = Pending /\ sfr_ret = Pending /\ timeout = NormalTimeout
    /\ found = <<>> /\ scan_id = 0
    /\ frame_bytes = <<>> /\ max_retries = 0 /\ attempt = 0
    /\ data = NoImage /\ total_chunks = 0 /\ index = 0 /\ chunk_idx = 0
    /\ interval = 0 /\ max_wait = {} /\ elapsed = 0
    /\ nak_budget = 0

\* crc.rs:3-20
Codec_Crc ==
    /\ op = "crc" /\ pc = "call"
    /\ out' = crc16_ccitt(arg)
    /\ ret' = Ok
    /\ pc' = "done"
    /\ UNCHANGED <<op, arg, io, scanVars, sfrVars, fwVars, magicVars, timeout, nak_budget>>

\* frame.rs:20-40
Codec_ToBytes ==
    /\ op = "to_bytes" /\ pc = "call"
    /\ out' = to_bytes(arg)
    /\ ret' = Ok
    /\ pc' = "done"
    /\ UNCHANGED <<op, arg, io, scanVars, sfrVars, fwVars, magicVars, timeout, nak_budget>>

\* dynamixel.rs:8-22; the u16 sum of line 18 panics on overflow in a build
\* with overflow checks and wraps in one without
Codec_Packet ==
    /\ op = "packet" /\ pc = "call"
    /\ \E overflow_checks \in BOOLEAN :
         IF overflow_checks /\ SumOverflows(PacketHead(arg.id, arg.instruction, arg.params))
         THEN out' = <<>> /\ ret' = Err("Panic", "overflow", 0)
         ELSE out' = build_dyn_packet(arg.id, arg.instruction, arg.params) /\ ret' = Ok
    /\ pc' = "done"
    /\ UNCHANGED <<op, arg, io, scanVars, sfrVars, fwVars, magicVars, timeout, nak_budget>>

NextCodec == Codec_Crc \/ Codec_ToBytes \/ Codec_Packet

-----------------------------------------------------------------------------

Next ==
    \/ SFR_Write
    \/ SFR_Flush
    \/ SFR_Read
    \/ FW_Start
    \/ FW_AfterSend
    \/ M_Start
    \/ M_Write
    \/ M_Flush
    \/ M_Read

Spec == Init /\ [][Next]_vars

\* the handshake called alone, and main's recovery flow as a whole
NextRecovery ==
    \/ R_Start
    \/ M_Start
    \/ M_Write
    \/ M_Flush
    \/ M_Read
    \/ R_InitWrite
    \/ R_InitRead
    \/ FW_Start
    \/ FW_AfterSend
    \/ SFR_Write
    \/ SFR_Flush
    \/ SFR_Read

\* scan_ids called alone; it is one sequential program, which takes its next
\* step as long as it has not returned
NextScan == SC_Start \/ SC_Ping \/ SC_Progress \/ SC_Finish

InitScanIds == InitCommon /\ InitScan

SpecScan == InitScanIds /\ [][NextScan]_vars /\ WF_vars(NextScan)

\* one codec function applied to one input
SpecCodec == InitCodec /\ [][NextCodec]_vars

InitHandshake == InitCommon /\ (InitMagic \/ InitRecovery)

SpecRecovery == InitHandshake /\ [][NextRecovery]_vars

-----------------------------------------------------------------------------
(* Properties of send_frame_with_retry *)

\* the responder has answered every read so far with NAK, and no call failed
OnlyNaks == AllCallsOk(io) /\ ReadCalls(io) = NakReads(io)

RetryExhausted(r) == ~r.ok /\ r.kind = "Other" /\ r.what = "nak"

\* C1: against a responder that answers NAK k times and then ACK, the call
\* succeeds iff k <= max_retries and fails with the retry-exhausted error
\* otherwise: after more than max_retries NAKs the call has ended with that
\* error, and an ACK after at most max_retries NAKs ends it with success.
C1_NakThenAck ==
    op = "frame" =>
      /\ (OnlyNaks /\ Cardinality(NakReads(io)) > max_retries)
            => (pc = "done" /\ RetryExhausted(ret))
      /\ (OnlyNaks /\ Cardinality(NakReads(io)) <= max_retries) => pc # "done"
      /\ (/\ io # <<>>
          /\ IsByteRead(io[Len(io)], ACK)
          /\ AllCallsOk(io)
          /\ ReadCalls(io) = NakReads(io) \cup {Len(io)})
            => (pc = "done" /\ ret.ok /\ Cardinality(NakReads(io)) <= max_retries)

\* C2: the frame is written at most max_retries + 1 times
C2_BoundedWrites ==
    op = "frame" => Cardinality(WriteCalls(io)) <= max_retries + 1

\* C3: the retry-exhausted error reports the number of times the frame was
\* written, which is max_retries + 1
C3_ReportedAttempts ==
    (op = "frame" /\ pc = "done" /\ RetryExhausted(ret)) =>
      /\ ret.n = Cardinality(WriteCalls(io))
      /\ ret.n = max_retries + 1

\* the io::Result a response that is not retried ends the call with
ErrorOfRead(e) ==
    IF e.res # "ok" THEN Err(e.res, "stream", 0)
    ELSE IF Len(e.data) # 1 THEN Err("UnexpectedEof", "read_bytes", Len(e.data))
    ELSE Err("InvalidData", "response", e.data[1])

\* C4: a frame is written again only right after a one-byte NAK response,
\* and then with the identical 70 bytes; a read that times out, returns no
\* byte or returns a byte other than ACK and NAK ends the call with the
\* timeout, framing or unexpected-response error and no further write.
C4_RetryOnlyOnNak ==
    op = "frame" =>
      /\ \A i \in WriteCalls(io) :
           /\ Len(io[i].data) = FrameLen /\ io[i].data = frame_bytes
           /\ i > 1 => (i > 3 /\ IsByteRead(io[i - 1], NAK) /\ IsWrite(io[i - 3])
                        /\ io[i].data = io[i - 3].data)
      /\ \A i \in ReadCalls(io) :
           ~(IsByteRead(io[i], NAK) \/ IsByteRead(io[i], ACK)) =>
             /\ i = Len(io)
             /\ pc = "done"
             /\ ret = ErrorOfRead(io[i])
             /\ ret.kind = (IF io[i].res = "TimedOut" THEN "TimedOut"
                            ELSE IF io[i].res # "ok" THEN io[i].res
                            ELSE IF io[i].data = <<>> THEN "UnexpectedEof"
                            ELSE "InvalidData")

\* a direct call retried the frame after a NAK, then ended on a timeout
C4_Witness ==
    /\ op = "frame"
    /\ pc = "done"
    /\ Cardinality(NakReads(io)) >= 2
    /\ Cardinality(WriteCalls(io)) >= 3
    /\ ret.kind = "TimedOut"

-----------------------------------------------------------------------------
(* Properties of send_firmware_file *)

Last(h) == h[Len(h)]

\* ceil(n / 64)
CeilChunks(n) == (n \div 64) + (IF n % 64 = 0 THEN 0 ELSE 1)

\* bytes is a frame carrying chunk c (0-based) of the image: its payload is
\* bytes [64c, 64c+64) of the image, padded with 0xFF
CarriesChunk(bytes, c) ==
    /\ Len(bytes) = 70
    /\ \A k \in 1..64 :
         bytes[3 + k] = (IF 64 * c + k <= DataLen(data) THEN Byte(data, 64 * c + k) ELSE 255)

\* C5: the frame of chunk N+1 is never written before the frame of chunk N
\* has been answered with ACK, and success is returned only when every
\* chunk's frame, the last one (stop marker 4) included, has been answered
\* with ACK.  io only grows, so every write is the last event of some state:
\* the frame written after a ACKs is the frame of chunk number a (0-based).
C5_InOrderAfterAck ==
    op = "firmware" =>
      /\ (io # <<>> /\ IsWrite(Last(io))) =>
            LET a == Cardinality(AckReads(io))
            IN /\ a < CeilChunks(DataLen(data))
               /\ Last(io).data[1] = (a + 1) % 256
               /\ CarriesChunk(Last(io).data, a)
               /\ a > 0 => \E j \in AckReads(io) :
                             /\ j > 2
                             /\ IsWrite(io[j - 2])
                             /\ io[j - 2].data[1] = a % 256
                             /\ CarriesChunk(io[j - 2].data, a - 1)
      /\ (pc = "done" /\ ret.ok) =>
            /\ Cardinality(AckReads(io)) = CeilChunks(DataLen(data))
            /\ Len(io) >= 3
            /\ IsByteRead(Last(io), ACK)
            /\ IsWrite(io[Len(io) - 2])
            /\ io[Len(io) - 2].data[70] = 4
            /\ CarriesChunk(io[Len(io) - 2].data, CeilChunks(DataLen(data)) - 1)

\* a three-chunk image went through with a NAK on the way
C5_Witness ==
    /\ op = "firmware"
    /\ pc = "done"
    /\ ret.ok
    /\ DataLen(data) = ShortLen
    /\ NakReads(io) # {}

\* the i-th call on the port made a frame fail: an error of the port, a read
\* of no byte, a byte that is neither ACK nor NAK, or the NAK that follows
\* FwRetries NAKs of the same frame
FrameFailedAt(h, i) ==
    \/ h[i].res # "ok"
    \/ IsRead(h[i]) /\ h[i].data \notin {<<ACK>>, <<NAK>>}
    \/ /\ i >= 3 * (FwRetries + 1)
       /\ \A k \in 0..FwRetries : IsByteRead(h[i - 3 * k], NAK)

\* the error the failed frame ends the transfer with
FrameError(h, i) ==
    IF IsByteRead(h[i], NAK) THEN Err("Other", "nak", FwRetries)
    ELSE IF IsRead(h[i]) THEN ErrorOfRead(h[i])
    ELSE Err(h[i].res, "stream", 0)

\* C6: when sending a frame fails, send_firmware_file returns that error and
\* writes no further byte: the failing call is the last call made on the port.
C6_AbortOnFailure ==
    op = "firmware" =>
      \A i \in 1..Len(io) :
        FrameFailedAt(io, i) =>
          /\ i = Len(io)
          /\ pc \in {"fw_after_send", "done"}
          /\ sfr_ret = FrameError(io, i)
          /\ pc = "done" => ret = FrameError(io, i)

\* the first frame of an image of several chunks ran out of retries
C6_Witness ==
    /\ op = "firmware"
    /\ pc = "done"
    /\ DataLen(data) > 64
    /\ AckReads(io) = {}
    /\ RetryExhausted(ret)

\* C7 as stated: no frame sent by send_firmware_file carries index 0
C7_NeverIndexZero ==
    op = "firmware" => \A i \in WriteCalls(io) : io[i].data[1] # 0

\* C7 as amended: the index starts at 1 and wraps modulo 256, the frame of
\* the i-th chunk carries i mod 256: index 0 is carried by the frame of every
\* 256th chunk and by no frame of the first 255 chunks.
C7_IndexWraps ==
    (op = "firmware" /\ io # <<>> /\ IsWrite(Last(io))) =>
      LET i == Cardinality(AckReads(io)) + 1
      IN /\ Last(io).data[1] = i % 256
         /\ i < 256 => Last(io).data[1] # 0
         /\ i = 1 => Last(io).data[1] = 1
         /\ Last(io).data[1] = 0 <=> i % 256 = 0

\* the frame of the 256th chunk was written, with index 0
C7_Witness ==
    /\ op = "firmware"
    /\ io # <<>>
    /\ IsWrite(Last(io))
    /\ Last(io).res = "ok"
    /\ Cardinality(AckReads(io)) = 255
    /\ Last(io).data[1] = 0

\* the triples (write, flush, read) of a transfer whose read returned ACK
AckedTriples ==
    SelectSeq([k \in 1..(Len(io) \div 3) |-> k], LAMBDA k : IsByteRead(io[3 * k], ACK))

\* C8: when every frame of an image of length L > 0 has been acknowledged,
\* exactly ceil(L/64) distinct frames were sent; the i-th has index i mod 256,
\* reserved byte 0, the i-th 64 bytes of the image padded with 0xFF as its
\* payload, and stop marker 4 if it is the final one, 6 otherwise.
C8_FramesOfImage ==
    (op = "firmware" /\ pc = "done" /\ ret.ok) =>
      LET n == CeilChunks(DataLen(data))
          acked == AckedTriples
      IN /\ DataLen(data) > 0
         /\ Len(io) % 3 = 0
         /\ Len(acked) = n
         /\ Cardinality({io[w].data : w \in WriteCalls(io)}) = n
         /\ \A w \in WriteCalls(io) :
              \E i \in 1..n : w % 3 = 1 /\ io[w].data = io[3 * acked[i] - 2].data
         /\ \A i \in 1..n :
              LET f == io[3 * acked[i] - 2]
              IN /\ IsWrite(f)
                 /\ Len(f.data) = 70
                 /\ f.data[1] = i % 256
                 /\ f.data[3] = 0
                 /\ CarriesChunk(f.data, i - 1)
                 /\ f.data[70] = (IF i = n THEN 4 ELSE 6)

\* a 130-byte image was transferred: three frames, the last one padded
C8_Witness ==
    /\ op = "firmware"
    /\ pc = "done"
    /\ ret.ok
    /\ DataLen(data) = ShortLen
    /\ Len(AckedTriples) = 3
    /\ io[Len(io) - 2].data[6] = 255

\* C9: an empty image fails with InvalidInput before any call on the port
C9_EmptyImage ==
    (op = "firmware" /\ DataLen(data) = 0) =>
      /\ io = <<>>
      /\ pc \in {"fw_start", "done"}
      /\ (pc = "done" /\ ret.what # "fs") => (~ret.ok /\ ret.kind = "InvalidInput")

\* the empty image was read and rejected
C9_Witness ==
    /\ op = "firmware"
    /\ DataLen(data) = 0
    /\ pc = "done"
    /\ ret.kind = "InvalidInput"
    /\ io = <<>>

-----------------------------------------------------------------------------
(* Properties of wait_for_bootloader_magic_ack *)

TimeoutReads(h) == {i \in 1..Len(h) : IsRead(h[i]) /\ h[i].res = "TimedOut"}

\* every call but the reads succeeded
WritesOk(h) == \A i \in 1..Len(h) : ~IsRead(h[i]) => h[i].res = "ok"

\* all the reads so far have timed out
OnlyTimeouts == WritesOk(io) /\ ReadCalls(io) = TimeoutReads(io)

\* the reads so far: timeouts, then the byte 0x06 just now
TimeoutsThenAck ==
    /\ io # <<>>
    /\ WritesOk(io)
    /\ IsByteRead(Last(io), ACK)
    /\ ReadCalls(io) = TimeoutReads(io) \cup {Len(io)}

MagicWrites(h) == {i \in WriteCalls(h) : h[i].data = BOOTLOADER_MAGIC /\ h[i].res = "ok"}

\* C10 as stated: against a responder whose first N reads time out and whose
\* next read returns 0x06, the call returns success after exactly N+1 writes
\* of the magic: it goes on while the reads time out, and the 0x06 ends it.
C10_SuccessAfterTimeouts ==
    op = "magic" =>
      /\ OnlyTimeouts => pc # "done"
      /\ TimeoutsThenAck =>
           /\ pc = "done" /\ ret.ok
           /\ Cardinality(MagicWrites(io)) = Cardinality(TimeoutReads(io)) + 1

\* C10 as amended: the same, as long as the max_wait deadline has not been
\* reached after one of the N timed-out reads (never, when max_wait is None);
\* once it has, the call has failed with the Timeout error.
C10_SuccessBeforeDeadline ==
    op = "magic" =>
      /\ (OnlyTimeouts /\ \A limit \in max_wait : elapsed < limit) =>
           /\ pc # "done"
           /\ Cardinality(WriteCalls(io)) \in
                {Cardinality(TimeoutReads(io)), Cardinality(TimeoutReads(io)) + 1}
      /\ (OnlyTimeouts /\ TimeoutReads(io) # {} /\ \E limit \in max_wait : elapsed >= limit) =>
           (pc = "done" /\ ~ret.ok /\ ret.kind = "TimedOut" /\ ret.what = "magic")
      /\ TimeoutsThenAck =>
           /\ pc = "done" /\ ret.ok
           /\ Cardinality(MagicWrites(io)) = Cardinality(TimeoutReads(io)) + 1
           /\ Cardinality(WriteCalls(io)) = Cardinality(TimeoutReads(io)) + 1

\* two reads timed out, the third returned 0x06
C10_Witness ==
    /\ op = "magic"
    /\ TimeoutsThenAck
    /\ Cardinality(TimeoutReads(io)) = 2
    /\ Cardinality(MagicWrites(io)) = 3
    /\ pc = "done"
    /\ ret.ok

-----------------------------------------------------------------------------
(* wait_for_bootloader_magic_ack against a responder that never acknowledges *)

\* the least time one round of the loop (write, flush, read) takes when the
\* read returns before its timeout, in ms
Tick == 50

\* what a read returns when no 0x06 ever comes: a timeout, another byte, or
\* nothing
SilentOutcomes ==
    {[res |-> "TimedOut", data |-> <<>>],
     [res |-> "ok", data |-> <<NAK>>],
     [res |-> "ok", data |-> <<>>]}

\* the handshake is called with a finite max_wait
InitLive == InitCommon /\ InitMagic /\ max_wait # {}

L_Start == M_StartStep("ok")
L_Write == M_WriteStep("ok")
L_Flush == M_FlushStep("ok")
L_Read ==
    \E r \in SilentOutcomes :
       M_ReadStep(r, IF r.res = "TimedOut" THEN timeout ELSE Tick)

NextLive == L_Start \/ L_Write \/ L_Flush \/ L_Read

\* the call is one sequential program: it takes its next step as long as it
\* has not returned
SpecLive == InitLive /\ [][NextLive]_vars /\ WF_vars(NextLive)

\* the call has returned the deadline's Timeout error
MagicTimedOut == pc = "done" /\ ret = Err("TimedOut", "magic", 0)

\* C11: called with a finite max_wait against a responder that never
\* returns 0x06 (each read times out or returns another byte or nothing), the
\* handshake eventually returns the Timeout error, and it does not return it
\* before the time elapsed since the start has reached max_wait.
C11_EventuallyTimeout ==
    /\ <>MagicTimedOut
    /\ [](MagicTimedOut => \A limit \in max_wait : elapsed >= limit)
    /\ []((pc = "done") => MagicTimedOut)

\* max_wait = 250 ms: the Timeout was returned after a NAK byte, an empty
\* read and timed-out reads
C11_Witness ==
    /\ op = "magic"
    /\ max_wait = {250}
    /\ MagicTimedOut
    /\ elapsed >= 250
    /\ \E i \in ReadCalls(io) : IsByteRead(io[i], NAK)
    /\ \E i \in ReadCalls(io) : io[i].res = "ok" /\ io[i].data = <<>>
    /\ TimeoutReads(io) # {}
    /\ AckReads(io) = {}

-----------------------------------------------------------------------------
(* wait_for_bootloader_magic_ack: errors and unexpected bytes *)

\* call i of the history raised an error the handshake does not retry: a
\* write, flush or set_timeout that failed, or a read that failed otherwise
\* than by timing out
HardFailure(h, i) ==
    IF IsRead(h[i]) THEN h[i].res \notin {"ok", "TimedOut"} ELSE h[i].res # "ok"

\* C18: in the handshake a read error other than a timeout is returned at
\* once: it is the last call on the port (no magic is written after it) and
\* the result is that error, never the deadline's Timeout, whatever time has
\* elapsed; an error of a write or a flush is returned the same way.
C18_HardErrorReturned ==
    op = "magic" =>
      \A i \in 1..Len(io) :
         HardFailure(io, i) =>
            /\ i = Len(io)
            /\ pc = "done"
            /\ ret = Err(io[i].res, "stream", 0)

\* a read failed with BrokenPipe when the deadline had already passed
C18_Witness ==
    /\ op = "magic"
    /\ pc = "done"
    /\ io # <<>>
    /\ IsRead(Last(io)) /\ Last(io).res = "BrokenPipe"
    /\ MagicWrites(io) # {}
    /\ DeadlineReached(max_wait, elapsed)
    /\ ret = Err("BrokenPipe", "stream", 0)

\* call i of the history is a read that returned something else than exactly
\* the byte 0x06: another byte, or nothing
OtherRead(h, i) == IsRead(h[i]) /\ h[i].res = "ok" /\ h[i].data # <<ACK>>

\* C19: in the handshake a read that returns another byte than 0x06, or no
\* byte, never ends the call by itself and never makes an unexpected-response
\* error: the magic is written again, unless the deadline has been reached,
\* and then the result is the deadline's Timeout.  Success is returned only
\* on a read of exactly the byte 0x06.
C19_OtherBytesIgnored ==
    op = "magic" =>
      /\ \A i \in 1..Len(io) :
            OtherRead(io, i) =>
               IF i < Len(io)
               THEN io[i + 1].ev = "write" /\ io[i + 1].data = BOOTLOADER_MAGIC
               ELSE \/ pc = "m_write" /\ ~DeadlineReached(max_wait, elapsed)
                    \/ /\ pc = "done"
                       /\ DeadlineReached(max_wait, elapsed)
                       /\ ret = Err("TimedOut", "magic", 0)
      /\ ret.kind \notin {"InvalidData", "UnexpectedEof"}
      /\ (pc = "done" /\ ret.ok) => (io # <<>> /\ IsByteRead(Last(io), ACK))

\* a NAK byte and an empty read were passed over, then 0x06 ended the call
C19_Witness ==
    /\ op = "magic"
    /\ pc = "done"
    /\ ret.ok
    /\ \E i, j \in ReadCalls(io) :
          /\ i < j
          /\ IsByteRead(io[i], NAK)
          /\ io[j].res = "ok" /\ io[j].data = <<>>
    /\ IsByteRead(Last(io), ACK)

-----------------------------------------------------------------------------
(* wait_for_bootloader_magic_ack: the read timeout it leaves on the port *)

\* the calls of set_timeout so far
SetTimeoutCalls(h) == {i \in 1..Len(h) : h[i].ev = "set_timeout"}

\* set_timeout(interval) has been called and has succeeded
TimeoutWasSet ==
    \E i \in SetTimeoutCalls(io) : io[i].res = "ok" /\ io[i].data = <<interval>>

\* C20: the handshake sets the read timeout of the port to interval before
\* its first write and nothing changes it afterwards: set_timeout is called
\* once, before every write, and from then on, through every return of the
\* handshake (success, Timeout, I/O error) the timeout is interval, not the
\* value configured before the call; so in the recovery flow the read of the
\* init ACK and the read of every frame's response are made with the
\* handshake's interval as their timeout.
C20_TimeoutLeftAtInterval ==
    /\ Cardinality(SetTimeoutCalls(io)) <= 1
    /\ \A i \in WriteCalls(io) : \E j \in SetTimeoutCalls(io) : j < i /\ io[j].res = "ok"
    /\ TimeoutWasSet => (timeout = interval /\ timeout # NormalTimeout)
    /\ (op = "magic" /\ pc = "done" /\ (ret.ok \/ ret.what = "magic")) => TimeoutWasSet
    /\ (op = "recovery" /\ pc \in {"init_read", "sfr_read"}) =>
          (TimeoutWasSet /\ timeout = RecoveryInterval)

\* the handshake called alone has returned the deadline's Timeout
C20_ReturnWitness ==
    /\ op = "magic"
    /\ MagicTimedOut
    /\ timeout = interval

\* the recovery flow is about to read the response to its second frame
C20_Witness ==
    /\ op = "recovery"
    /\ pc = "sfr_read"
    /\ chunk_idx = 1
    /\ AckReads(io) # {}
    /\ timeout = RecoveryInterval

-----------------------------------------------------------------------------
(* scan_ids *)

\* the event is the write of a Ping packet; the address it is sent to
IsPing(e) ==
    /\ IsWrite(e)
    /\ Len(e.data) = 6
    /\ e.data[1] = 255 /\ e.data[2] = 255 /\ e.data[4] = 2 /\ e.data[5] = 1
PingId(e) == e.data[3]

\* write i of the history goes to address 0 if it is the first write, and
\* otherwise to the address after that of the write before it
InAscendingOrder(h, i) ==
    IF \A j \in 1..(i - 1) : ~IsWrite(h[j])
    THEN PingId(h[i]) = 0
    ELSE \E j \in {i - 3, i - 2, i - 1} :
            /\ j >= 1
            /\ IsWrite(h[j])
            /\ \A k \in (j + 1)..(i - 1) : ~IsWrite(h[k])
            /\ PingId(h[i]) = PingId(h[j]) + 1

\* every packet written so far is a Ping, they go to the addresses 0, 1, 2,
\* ... in this order, one each, and none goes beyond 253
PingsAscending ==
    \A i \in WriteCalls(io) :
       /\ IsPing(io[i])
       /\ PingId(io[i]) <= 253
       /\ InAscendingOrder(io, i)

\* all the 254 addresses 0..253 have been pinged
AllPinged == Cardinality(WriteCalls(io)) = 254

\* C12 as stated: scan_ids pings every address 0..253 exactly once, in
\* ascending order, and never 254, whatever the pings do: when it returns,
\* the pings written are those of 0, 1, ..., 253.
C12_AllPingedOnReturn ==
    op = "scan" =>
      /\ PingsAscending
      /\ pc = "done" => AllPinged

\* C12, amended: the pings scan_ids writes go to the addresses 0, 1, 2, ...
\* in ascending order, one each, and never to 254, whatever the pings do
\* (respond, time out, raise an error); it goes through all of 0..253 before
\* it restores the timeout and whenever it returns Ok; it returns earlier,
\* with an error, only when the first set_timeout or the progress output
\* fails, and then it has pinged 0..k for the k it had come to.
C12_AscendingPrefix ==
    op = "scan" =>
      /\ PingsAscending
      /\ Cardinality(WriteCalls(io)) =
            IF pc \in {"sc_start", "sc_ping"} \/ io[1].res # "ok"
            THEN scan_id ELSE scan_id + 1
      /\ (pc = "sc_finish" \/ (pc = "done" /\ ret.ok)) => AllPinged
      /\ (pc = "done" /\ ~AllPinged) =>
            /\ ~ret.ok
            /\ \/ ret.what = "stdout"
               \/ Len(io) = 1 /\ io[1].res # "ok" /\ ret = Err(io[1].res, "stream", 0)

\* the scan has returned Ok: 0 and 253 have responded, a call of the ping of
\* 1 has failed, the others have timed out
C12_Witness ==
    /\ op = "scan"
    /\ pc = "done"
    /\ ret.ok
    /\ AllPinged
    /\ found = <<0, 253>>
    /\ \E i \in 1..Len(io) : io[i].res = "BrokenPipe"
    /\ Cardinality(TimeoutReads(io)) >= 251

\* C13: whenever scan_ids returns, the read timeout of the port is the
\* longer one (10 s) again, never the 30 ms of the scan.
C13_TimeoutRestored ==
    (op = "scan" /\ pc = "done") =>
       (timeout = ScanRestoreTimeout /\ timeout # SCAN_TIMEOUT_MS)

\* C14: no operation makes a normal result of a hard error: an error other
\* than a timeout of a read, or any error of a write or a flush, ends the
\* operation, which returns it to its caller; this holds also for the calls
\* of the pings inside scan_ids.
C14_HardErrorsReturned ==
    \A i \in 1..Len(io) :
       HardFailure(io, i) =>
          /\ pc = "done"
          /\ ~ret.ok
          /\ ret.kind = io[i].res
          /\ \A j \in (i + 1)..Len(io) : ~IsWrite(io[j])

-----------------------------------------------------------------------------
(* The codec functions *)

\* C15: for every index 0..255, reserved byte, 64-byte payload and is_last,
\* to_bytes returns 70 bytes: [0] the index, [1] its bitwise complement, [2]
\* the reserved byte, [3..67) the payload, [67] and [68] the high and the low
\* byte of the checksum of the bytes [0..64) of the output, and [69] 4 if
\* is_last and 6 if not.
C15_FrameLayout ==
    (op = "to_bytes" /\ pc = "done") =>
       /\ Len(out) = 70
       /\ out[1] = arg.index
       /\ Xor(out[1], out[2]) = 255
       /\ out[3] = arg.unknown_byte
       /\ \A k \in 1..64 : out[3 + k] = arg.data[k]
       /\ out[68] * 256 + out[69] = crc16_ccitt(SubSeq(out, 1, 64))
       /\ out[68] \in 0..255 /\ out[69] \in 0..255
       /\ out[70] = (IF arg.is_last THEN 4 ELSE 6)

\* the last frame with index 255 has been encoded
C15_Witness ==
    /\ op = "to_bytes" /\ pc = "done"
    /\ arg.index = 255 /\ arg.is_last /\ arg.unknown_byte = 255
    /\ out[1] = 255 /\ out[2] = 0 /\ out[70] = 4

\* the frame f with its payload bytes 61..63 (0-based) set to b and is_last
\* set to l
WithTail(f, b, l) ==
    [f EXCEPT !.data = [k \in 1..64 |-> IF k >= 62 THEN b ELSE f.data[k]],
              !.is_last = l]

\* the frame f with its payload byte 60 (0-based) changed
WithByte60Changed(f) == [f EXCEPT !.data[61] = (f.data[61] + 1) % 256]

\* C16: the checksum uses only the first 64 bytes of its input:
\* crc16_ccitt(data) = crc16_ccitt(data[0..64]) for every data of 64 bytes or
\* more; so the checksum bytes [67], [68] of an encoded frame do not change
\* when the payload bytes 61..63 or is_last change.
C16_ChecksumWindow ==
    /\ (op = "crc" /\ pc = "done" /\ Len(arg) >= 64) =>
          out = crc16_ccitt(SubSeq(arg, 1, 64))
    /\ (op = "to_bytes" /\ pc = "done") =>
          \A l \in BOOLEAN :
             LET other == to_bytes(WithTail(arg, IF l THEN 0 ELSE 170, l))
             IN other[68] = out[68] /\ other[69] = out[69]

\* the checksum of 100 bytes has been computed: it is that of the first 64,
\* and not that of the first 63
C16_Witness ==
    /\ op = "crc" /\ pc = "done"
    /\ Len(arg) = 100
    /\ out = crc16_ccitt(SubSeq(arg, 1, 64))
    /\ out # crc16_ccitt(SubSeq(arg, 1, 63))

\* a frame has been encoded whose checksum bytes change with payload byte
\* 60 but not with the bytes after it
C16_FrameWitness ==
    /\ op = "to_bytes" /\ pc = "done"
    /\ arg.index = 1
    /\ LET tail == to_bytes(WithTail(arg, 0, ~arg.is_last))
           inside == to_bytes(WithByte60Changed(arg))
       IN /\ tail # out
          /\ <<tail[68], tail[69]>> = <<out[68], out[69]>>
          /\ <<inside[68], inside[69]>> # <<out[68], out[69]>>

\* out is the packet of id, instruction and params with length byte len:
\* lead bytes, address, length, instruction, parameters, and a checksum that
\* is the complement of the sum of the bytes from the address through the
\* last parameter, mod 256
IsPacket(id, len, instruction, params) ==
    /\ Len(out) = Len(params) + 6
    /\ SubSeq(out, 1, 5) = <<255, 255, id, len, instruction>>
    /\ SubSeq(out, 6, Len(out) - 1) = params
    /\ out[Len(out)] \in 0..255
    /\ (SumRange(out, 3, Len(out) - 1) + out[Len(out)]) % 256 = 255

\* C17 as stated: for every address, instruction and parameter sequence the
\* packet is [0xFF, 0xFF, address, len(parameters)+2, instruction,
\* ...parameters, checksum]; the ping and the reboot of address 1 are
\* FF FF 01 02 01 FB and FF FF 01 02 08 F4.
C17_PacketLayout ==
    (op = "packet" /\ pc = "done") =>
       /\ ret.ok
       /\ IsPacket(arg.id, Len(arg.params) + 2, arg.instruction, arg.params)
       /\ (arg.id = 1 /\ arg.params = <<>> /\ arg.instruction = 1) =>
             out = <<255, 255, 1, 2, 1, 251>>
       /\ (arg.id = 1 /\ arg.params = <<>> /\ arg.instruction = 8) =>
             out = <<255, 255, 1, 2, 8, 244>>

\* the length byte of a packet of n parameters: n + 2 as far as a byte holds
\* it, 255 for 254 and 255 parameters, and from 256 parameters on that of
\* n mod 256 parameters
LengthByte(n) == IF n % 256 <= 253 THEN (n % 256) + 2 ELSE 255

\* C17, amended: the packet is [0xFF, 0xFF, address, length, instruction,
\* ...parameters, checksum] with the checksum the complement of the sum of
\* the bytes from the address through the last parameter mod 256, and with
\* length = len(parameters)+2 for up to 253 parameters; with 254 or more
\* parameters the length byte is not len(parameters)+2 (255, or that of
\* len mod 256), and the call can panic instead of returning, in a build with
\* overflow checks, only when the sum exceeds 65535.  The two examples hold.
C17_PacketLayoutUpTo253 ==
    (op = "packet" /\ pc = "done") =>
       /\ ret.ok => IsPacket(arg.id, LengthByte(Len(arg.params)), arg.instruction, arg.params)
       /\ Len(arg.params) <= 253 => (ret.ok /\ out[4] = Len(arg.params) + 2)
       /\ Len(arg.params) >= 254 => (ret.ok => out[4] # Len(arg.params) + 2)
       /\ ~ret.ok => (ret.kind = "Panic" /\ Len(arg.params) >= 255)
       /\ (arg.id = 1 /\ arg.params = <<>> /\ arg.instruction = 1) =>
             out = <<255, 255, 1, 2, 1, 251>>
       /\ (arg.id = 1 /\ arg.params = <<>> /\ arg.instruction = 8) =>
             out = <<255, 255, 1, 2, 8, 244>>

\* the packet of 253 parameters, the longest with a true length byte
C17_Witness ==
    /\ op = "packet" /\ pc = "done"
    /\ ret.ok
    /\ Len(arg.params) = 253
    /\ arg.params[1] = 255
    /\ out[4] = 255
    /\ Len(out) = 259

\* the ping of address 1
C17_PingWitness ==
    /\ op = "packet" /\ pc = "done"
    /\ out = <<255, 255, 1, 2, 1, 251>>

====
